---------------------------- MODULE Spec2Model ----------------------------
(***************************************************************************)
(* Model of src/app.py: the PMC OAI-PMH harvest loop                       *)
(* (fetch_pmc_oai_records), the button handler that filters and renders    *)
(* the harvested records, and the helper text_match.                       *)
(*                                                                         *)
(* Python strings are modelled as sequences of one-character strings, so   *)
(* that lower(), split(), startswith(), the `in` substring test, the       *)
(* regular expression \d{4} and int() are computed and not assumed.        *)
(* The empty sequence << >> stands for the empty string "" (which is also  *)
(* what ElementTree's None text is filtered to by `if e.text`).            *)
(***************************************************************************)
EXTENDS Integers, Sequences, FiniteSets, TLC

VARIABLES
    pc,            \* position of the script: idle / get / for / returned / failed / done / call / ret
    max_results,   \* st.number_input value handed to fetch_pmc_oai_records
    records,       \* fetch_pmc_oai_records: local list `records`
    params,        \* fetch_pmc_oai_records: local dict `params`
    resp,          \* the response of the last requests.get
    idx,           \* position of the for loop in root.findall(".//oai:record")
    nreq,          \* number of requests.get calls of this harvest (saturates at MaxReq)
    sent,          \* the parameters carried by the last requests.get call
    seen,          \* history: the record elements the for loop has processed (first MaxSeen)
    truncated,     \* history: TRUE once `seen` stopped recording
    raw_records,   \* handler: value returned by fetch_pmc_oai_records
    returned,      \* handler: TRUE once raw_records has been assigned
    search_query,  \* st.text_input value read by the filter loop
    from_year,     \* st.slider lower value
    to_year,       \* st.slider upper value
    filtered,      \* handler: list `filtered`
    table,         \* rows handed to st.dataframe (<< >> when st.dataframe is not called)
    buttons,       \* TRUE when the two st.download_button calls are made
    error,         \* the exception that ended the script run, "none" otherwise
    fn,            \* helper under test in FnSpec, "none" in Spec
    arg,           \* its argument
    out            \* its result

vars == <<pc, max_results, records, params, resp, idx, nreq, sent, seen,
          truncated, raw_records, returned, search_query, from_year, to_year,
          filtered, table, buttons, error, fn, arg, out>>

-----------------------------------------------------------------------------
(* Bounds of the model *)

MaxN == 2          \* largest record budget N tried
MaxPage == 2       \* largest number of record elements in one response
MaxSeen == 3       \* length of the history `seen`
MaxReq == 2        \* value at which the request counter saturates
MaxTextLen == 3    \* longest title / query tried on text_match
MaxIds == 3        \* longest dc:identifier list tried
MaxDateLen == 5    \* longest first dc:date text tried
MaxDates == 2      \* longest dc:date list tried
YearMargin == 2    \* years tried on the year test reach this far outside the slider

(* Program constants *)

SliderMin == 1990
SliderMax == 2025

-----------------------------------------------------------------------------
(* Strings *)

Whitespace == {" "}
Digits == {"0", "1", "2", "3", "4", "5", "6", "7", "8", "9"}
LowerOf == ("A" :> "a") @@ ("B" :> "b") @@ ("S" :> "s") @@ ("P" :> "p")
             @@ ("M" :> "m") @@ ("C" :> "c")

RECURSIVE StringsUpTo(_, _)
StringsUpTo(alphabet, n) ==
    IF n = 0 THEN {<< >>}
    ELSE LET shorter == StringsUpTo(alphabet, n - 1)
         IN  shorter \cup {Append(s, c) : s \in shorter, c \in alphabet}

RECURSIVE ListsUpTo(_, _)
ListsUpTo(items, n) ==
    IF n = 0 THEN {<< >>}
    ELSE LET shorter == ListsUpTo(items, n - 1)
         IN  shorter \cup {Append(l, x) : l \in shorter, x \in items}

\* str.lower()
lower(s) == [i \in 1..Len(s) |-> IF s[i] \in DOMAIN LowerOf THEN LowerOf[s[i]] ELSE s[i]]

\* str.split() without arguments: runs of whitespace separate, no empty words
RECURSIVE split_from(_, _, _, _)
split_from(s, i, word, words) ==
    IF i > Len(s)
    THEN IF word = << >> THEN words ELSE Append(words, word)
    ELSE IF s[i] \in Whitespace
         THEN split_from(s, i + 1, << >>,
                         IF word = << >> THEN words ELSE Append(words, word))
         ELSE split_from(s, i + 1, Append(word, s[i]), words)

split(s) == split_from(s, 1, << >>, << >>)

\* the `in` operator on two strings
Contains(text, w) ==
    \E k \in 0..(Len(text) - Len(w)) : SubSeq(text, k + 1, k + Len(w)) = w

\* str.startswith(prefix)
startswith(s, prefix) ==
    /\ Len(s) >= Len(prefix)
    /\ SubSeq(s, 1, Len(prefix)) = prefix

\* "; ".join(list)
RECURSIVE join(_)
join(l) ==
    IF l = << >> THEN << >>
    ELSE IF Len(l) = 1 THEN l[1]
    ELSE l[1] \o <<";", " ">> \o join(Tail(l))

\* int(s) on a string of decimal digits
DigitValue == ("0" :> 0) @@ ("1" :> 1) @@ ("2" :> 2) @@ ("3" :> 3) @@ ("4" :> 4)
                @@ ("5" :> 5) @@ ("6" :> 6) @@ ("7" :> 7) @@ ("8" :> 8) @@ ("9" :> 9)

RECURSIVE int_from(_, _, _)
int_from(s, i, acc) ==
    IF i > Len(s) THEN acc ELSE int_from(s, i + 1, 10 * acc + DigitValue[s[i]])

int(s) == int_from(s, 1, 0)

\* re.search(r"\d{4}", s): the leftmost match, << >> for None
RECURSIVE re_search_from(_, _)
re_search_from(s, i) ==
    IF i + 3 > Len(s) THEN << >>
    ELSE IF \A k \in i..(i + 3) : s[k] \in Digits
         THEN SubSeq(s, i, i + 3)
         ELSE re_search_from(s, i + 1)

re_search(s) == re_search_from(s, 1)

\* [e.text for e in dc.findall(...) if e.text]
NonEmpty(s) == s # << >>
Texts(raw) == SelectSeq(raw, NonEmpty)

-----------------------------------------------------------------------------
(* Helpers of app.py *)

text_match_no_empty_check(text, query) ==
    LET words == split(lower(query))
    IN  \A i \in 1..Len(words) : Contains(lower(text), words[i])

text_match(text, query) ==
    IF text = << >> THEN FALSE
    ELSE LET words == split(lower(query))
             t == lower(text)
         IN  \A i \in 1..Len(words) : Contains(t, words[i])

PMCPrefix == <<"P", "M", "C">>
DOIPrefix == <<"1", "0", ".">>

\* the loop `for i in identifiers` with its two accumulators
RECURSIVE select_first_ids(_, _, _, _)
select_first_ids(identifiers, k, pmcid, doi) ==
    IF k > Len(identifiers) THEN [pmcid |-> pmcid, doi |-> doi]
    ELSE LET i == identifiers[k]
         IN  select_first_ids(identifiers, k + 1,
                 IF startswith(i, PMCPrefix) /\ pmcid = << >> THEN i ELSE pmcid,
                 IF startswith(i, DOIPrefix) /\ doi = << >> THEN i ELSE doi)

RECURSIVE select_ids_from(_, _, _, _)
select_ids_from(identifiers, k, pmcid, doi) ==
    IF k > Len(identifiers) THEN [pmcid |-> pmcid, doi |-> doi]
    ELSE LET i == identifiers[k]
         IN  select_ids_from(identifiers, k + 1,
                 IF startswith(i, PMCPrefix) THEN i ELSE pmcid,
                 IF startswith(i, DOIPrefix) THEN i ELSE doi)

first_ids(identifiers) == select_first_ids(identifiers, 1, << >>, << >>)

select_ids(identifiers) == select_ids_from(identifiers, 1, << >>, << >>)

year_of_last_date(dates) ==
    IF dates # << >> THEN re_search(dates[Len(dates)]) ELSE << >>

year_of(dates) ==
    IF dates # << >> THEN re_search(dates[1]) ELSE << >>

year_ok_exclusive(year, lo, hi) ==
    year = << >> \/ (lo < int(year) /\ int(year) <= hi)

\* the second conjunct of the filter condition
year_ok(year, lo, hi) ==
    year = << >> \/ (lo <= int(year) /\ int(year) <= hi)

-----------------------------------------------------------------------------
(* The endpoint: what one requests.get can produce *)

PMC1 == <<"P", "M", "C", "1">>
PMC2 == <<"P", "M", "C", "2">>
DOI1 == <<"1", "0", ".", "1">>
DOI2 == <<"1", "0", ".", "2">>

\* the children of two dc:dc elements
DC1 == [titles |-> << <<"S", "a">> >>,
        creators |-> << <<"B">> >>,
        identifiers |-> <<PMC1, DOI1, PMC2>>,
        dates |-> << <<"2", "0", "0", "5">> >>]
DC2 == [titles |-> << <<"a">>, << >>, <<"b">> >>,
        creators |-> << >>,
        identifiers |-> << >>,
        dates |-> << <<"x">>, <<"2", "0", "2", "0">> >>]
NoDC == [titles |-> << >>, creators |-> << >>, identifiers |-> << >>, dates |-> << >>]

\* oai:record elements: without oai:metadata, without dc:dc, and two complete ones
RecordElements ==
    { [meta |-> FALSE, dc |-> FALSE, children |-> NoDC],
      [meta |-> TRUE, dc |-> FALSE, children |-> NoDC],
      [meta |-> TRUE, dc |-> TRUE, children |-> DC1],
      [meta |-> TRUE, dc |-> TRUE, children |-> DC2] }

\* oai:resumptionToken: element absent, element with no text, element with text
NoToken == [present |-> FALSE, text |-> ""]
Tokens == { NoToken,
            [present |-> TRUE, text |-> ""],
            [present |-> TRUE, text |-> "abc"],
            [present |-> TRUE, text |-> "xyz"] }

NoResp == [exc |-> "none", status |-> 0, wellformed |-> FALSE,
           elems |-> << >>, token |-> NoToken]

Failure(exc, status, wellformed) ==
    [exc |-> exc, status |-> status, wellformed |-> wellformed,
     elems |-> << >>, token |-> NoToken]

Responses ==
    { [exc |-> "none", status |-> 200, wellformed |-> TRUE, elems |-> es, token |-> t] :
          es \in ListsUpTo(RecordElements, MaxPage), t \in Tokens }
    \cup { Failure("ConnectionError", 0, FALSE), Failure("Timeout", 0, FALSE),
           Failure("none", 404, TRUE), Failure("none", 500, FALSE),
           Failure("none", 200, FALSE) }

-----------------------------------------------------------------------------
(* fetch_pmc_oai_records *)

InitialParams == [verb |-> "ListRecords", metadataPrefix |-> "oai_dc"]
NoParams == [verb |-> "none"]

raise_for_status_skipped(status) == FALSE

\* r.raise_for_status(): HTTPError for a 4xx or 5xx status
raise_for_status(status) == status >= 400 /\ status < 600

skip_only_without_metadata(rec) == ~rec.meta

\* the two `continue` statements of the for loop
skip(rec) ==
    IF ~rec.meta THEN TRUE
    ELSE IF ~rec.dc THEN TRUE
    ELSE FALSE

\* the dictionary appended to `records`
extract(dc) ==
    LET ids == select_ids(Texts(dc.identifiers))
    IN  [Title |-> join(Texts(dc.titles)),
         Authors |-> join(Texts(dc.creators)),
         Year |-> year_of(Texts(dc.dates)),
         PMCID |-> ids.pmcid,
         DOI |-> ids.doi]

budget_exceeded(recs, n) == Len(recs) > n

\* len(records) >= max_records
budget_reached(recs, n) == Len(recs) >= n

\* token is None or not token.text
token_missing(token) == ~token.present \/ token.text = ""

next_params_keeping_prefix(token) ==
    [verb |-> "ListRecords", metadataPrefix |-> "oai_dc", resumptionToken |-> token.text]

\* the params of a follow-up request
next_params(token) == [verb |-> "ListRecords", resumptionToken |-> token.text]

-----------------------------------------------------------------------------
(* The button handler *)

keep_either(r, query, lo, hi) ==
    text_match(r.Title, query) \/ year_ok(r.Year, lo, hi)

\* the condition of the filter loop
keep(r, query, lo, hi) ==
    text_match(r.Title, query) /\ year_ok(r.Year, lo, hi)

\* for r in raw_records: if ...: filtered.append(r)
RECURSIVE filter_loop(_, _, _, _, _, _)
filter_loop(raw, k, query, lo, hi, acc) ==
    IF k > Len(raw) THEN acc
    ELSE filter_loop(raw, k + 1, query, lo, hi,
                     IF keep(raw[k], query, lo, hi) THEN Append(acc, raw[k]) ELSE acc)

\* widget values tried
Queries == { <<"s">>, <<"A", " ", "b">> }
YearRanges == { <<2000, 2025>>, <<2010, 2025>> }

-----------------------------------------------------------------------------
(* State machine of one script run per button press *)

Init ==
    /\ pc = "idle"
    /\ max_results = 1
    /\ records = << >>
    /\ params = InitialParams
    /\ resp = NoResp
    /\ idx = 0
    /\ nreq = 0
    /\ sent = NoParams
    /\ seen = << >>
    /\ truncated = FALSE
    /\ raw_records = << >>
    /\ returned = FALSE
    /\ search_query = << >>
    /\ from_year = SliderMin
    /\ to_year = SliderMax
    /\ filtered = << >>
    /\ table = << >>
    /\ buttons = FALSE
    /\ error = "none"
    /\ fn = "none"
    /\ arg = << >>
    /\ out = << >>

\* st.button returns True: a script run starts and calls fetch_pmc_oai_records(max_results)
Click ==
    /\ pc \in {"idle", "done", "failed"}
    /\ \E n \in 1..MaxN : max_results' = n
    /\ pc' = "get"
    /\ records' = << >>
    /\ params' = InitialParams
    /\ resp' = NoResp
    /\ idx' = 0
    /\ nreq' = 0
    /\ sent' = NoParams
    /\ seen' = << >>
    /\ truncated' = FALSE
    /\ raw_records' = << >>
    /\ returned' = FALSE
    /\ filtered' = << >>
    /\ table' = << >>
    /\ buttons' = FALSE
    /\ error' = "none"
    /\ UNCHANGED <<search_query, from_year, to_year, fn, arg, out>>

\* requests.get, r.raise_for_status(), ET.fromstring(r.text)
Get ==
    /\ pc = "get"
    /\ \E r \in Responses :
          /\ resp' = r
          /\ IF r.exc # "none"
             THEN pc' = "failed" /\ error' = r.exc /\ idx' = idx
             ELSE IF raise_for_status(r.status)
             THEN pc' = "failed" /\ error' = "HTTPError" /\ idx' = idx
             ELSE IF ~r.wellformed
             THEN pc' = "failed" /\ error' = "ParseError" /\ idx' = idx
             ELSE pc' = "for" /\ error' = error /\ idx' = 1
    /\ sent' = params
    /\ nreq' = IF nreq < MaxReq THEN nreq + 1 ELSE nreq
    /\ UNCHANGED <<max_results, records, params, seen, truncated, raw_records,
                   returned, search_query, from_year, to_year, filtered, table,
                   buttons, fn, arg, out>>

\* one iteration of `for rec in root.findall(".//oai:record", ns)`
ForRec ==
    /\ pc = "for"
    /\ idx <= Len(resp.elems)
    /\ LET rec == resp.elems[idx]
           appended == Append(records, extract(rec.children))
       IN  /\ IF Len(seen) < MaxSeen
              THEN seen' = Append(seen, rec) /\ truncated' = truncated
              ELSE seen' = seen /\ truncated' = TRUE
           /\ IF skip(rec)
              THEN /\ records' = records
                   /\ idx' = idx + 1
                   /\ UNCHANGED <<pc, raw_records, returned>>
              ELSE /\ records' = appended
                   /\ IF budget_reached(appended, max_results)
                      THEN /\ pc' = "returned"
                           /\ raw_records' = appended
                           /\ returned' = TRUE
                           /\ idx' = idx
                      ELSE /\ idx' = idx + 1
                           /\ UNCHANGED <<pc, raw_records, returned>>
    /\ UNCHANGED <<max_results, params, resp, nreq, sent, search_query, from_year,
                   to_year, filtered, table, buttons, error, fn, arg, out>>

\* after the for loop: root.find(".//oai:resumptionToken", ns), break or new params
Token ==
    /\ pc = "for"
    /\ idx > Len(resp.elems)
    /\ IF token_missing(resp.token)
       THEN /\ pc' = "returned"
            /\ raw_records' = records
            /\ returned' = TRUE
            /\ params' = params
       ELSE /\ pc' = "get"
            /\ params' = next_params(resp.token)
            /\ UNCHANGED <<raw_records, returned>>
    /\ UNCHANGED <<max_results, records, resp, idx, nreq, sent, seen, truncated,
                   search_query, from_year, to_year, filtered, table, buttons,
                   error, fn, arg, out>>

\* the filter loop over the widget values, st.dataframe and the download buttons
FilterRender ==
    /\ pc = "returned"
    /\ \E q \in Queries, yr \in YearRanges :
          LET result == filter_loop(raw_records, 1, q, yr[1], yr[2], << >>)
          IN  /\ search_query' = q
              /\ from_year' = yr[1]
              /\ to_year' = yr[2]
              /\ filtered' = result
              /\ table' = result
              /\ buttons' = (result # << >>)
    /\ pc' = "done"
    /\ UNCHANGED <<max_results, records, params, resp, idx, nreq, sent, seen,
                   truncated, raw_records, returned, error, fn, arg, out>>

Next == Click \/ Get \/ ForRec \/ Token \/ FilterRender

Spec == Init /\ [][Next]_vars

\* the script runs to completion once started; every requests.get ends (timeout=30)
LiveSpec ==
    /\ Init
    /\ [][Next]_vars
    /\ WF_vars(Get)
    /\ WF_vars(ForRec)
    /\ WF_vars(Token)
    /\ WF_vars(FilterRender)

-----------------------------------------------------------------------------
(* The helpers on their own: one call per behaviour, inputs drawn in FnInit *)

MatchAlphabet == {"a", "A", "b", " "}
MatchStrings == StringsUpTo(MatchAlphabet, MaxTextLen)

\* dc:identifier texts, the empty text included
IdTexts == { << >>, PMC1, PMC2, DOI1, DOI2, <<"P", "M">>, <<"x", "1", "0", ".">>, <<"1">> }

\* dc:date texts: the first one is drawn from all short strings, the later ones from a few
FirstDates == StringsUpTo({"1", "2", "x"}, MaxDateLen)
LaterDates == { << >>, <<"2", "2", "2", "2">>, <<"x">> }
DateLists ==
    {<< >>} \cup { <<d>> \o rest : d \in FirstDates, rest \in ListsUpTo(LaterDates, MaxDates - 1) }

DigitChars == <<"0", "1", "2", "3", "4", "5", "6", "7", "8", "9">>
Str4(n) == << DigitChars[(n \div 1000) + 1], DigitChars[((n \div 100) % 10) + 1],
              DigitChars[((n \div 10) % 10) + 1], DigitChars[(n % 10) + 1] >>

\* values of r["Year"]: empty or four digits
YearsTried ==
    {<< >>, Str4(5), Str4(9999)}
    \cup { Str4(n) : n \in (SliderMin - YearMargin)..(SliderMax + YearMargin) }

FnCalls ==
    { [fn |-> "text_match", arg |-> [text |-> t, query |-> q]] :
          t \in MatchStrings, q \in MatchStrings }
    \cup { [fn |-> "select_ids", arg |-> ids] : ids \in ListsUpTo(IdTexts, MaxIds) }
    \cup { [fn |-> "year_of", arg |-> ds] : ds \in DateLists }
    \cup { [fn |-> "year_ok", arg |-> [year |-> y, lo |-> lo, hi |-> hi]] :
          y \in YearsTried, lo \in SliderMin..SliderMax, hi \in SliderMin..SliderMax }

FnInit ==
    /\ pc = "call"
    /\ \E c \in FnCalls :
          /\ c.fn = "year_ok" => c.arg.lo <= c.arg.hi
          /\ fn = c.fn
          /\ arg = c.arg
    /\ out = << >>
    /\ max_results = 1
    /\ records = << >>
    /\ params = InitialParams
    /\ resp = NoResp
    /\ idx = 0
    /\ nreq = 0
    /\ sent = NoParams
    /\ seen = << >>
    /\ truncated = FALSE
    /\ raw_records = << >>
    /\ returned = FALSE
    /\ search_query = << >>
    /\ from_year = SliderMin
    /\ to_year = SliderMax
    /\ filtered = << >>
    /\ table = << >>
    /\ buttons = FALSE
    /\ error = "none"

Return(result) ==
    /\ out' = result
    /\ pc' = "ret"
    /\ UNCHANGED <<max_results, records, params, resp, idx, nreq, sent, seen,
                   truncated, raw_records, returned, search_query, from_year,
                   to_year, filtered, table, buttons, error, fn, arg>>

CallTextMatch ==
    /\ pc = "call"
    /\ fn = "text_match"
    /\ Return(text_match(arg.text, arg.query))

CallSelectIds ==
    /\ pc = "call"
    /\ fn = "select_ids"
    /\ Return(select_ids(Texts(arg)))

CallYearOf ==
    /\ pc = "call"
    /\ fn = "year_of"
    /\ Return(year_of(Texts(arg)))

CallYearOk ==
    /\ pc = "call"
    /\ fn = "year_ok"
    /\ Return(year_ok(arg.year, arg.lo, arg.hi))

FnNext == CallTextMatch \/ CallSelectIds \/ CallYearOf \/ CallYearOk

FnSpec == FnInit /\ [][FnNext]_vars

-----------------------------------------------------------------------------
(* Properties *)

\* C1: every harvest ends: once fetch_pmc_oai_records has been called it
\* eventually returns (or raises), whatever the endpoint answers.
C1_Terminates == (pc = "get") ~> (pc \in {"returned", "failed"})

NewRun == pc \in {"done", "failed"} /\ pc' = "get"

\* C2: the collected records never exceed the budget N, and once the N-th
\* record is appended the harvest has returned: the for loop stays on that
\* element and no request follows, even when the page carries a token.
C2_BudgetStops ==
    /\ [](/\ Len(records) <= max_results
          /\ Len(records) >= max_results =>
                /\ pc \in {"returned", "done"}
                /\ returned
                /\ raw_records = records
                /\ idx \in 1..Len(resp.elems)
                /\ resp.elems[idx].meta /\ resp.elems[idx].dc)
    /\ [][Len(records) >= max_results =>
            \/ NewRun
            \/ /\ records' = records
               /\ idx' = idx
               /\ seen' = seen
               /\ resp' = resp
               /\ sent' = sent
               /\ nreq' = nreq]_vars

C2_Witness ==
    /\ pc = "returned"
    /\ max_results = 2
    /\ Len(records) = 2
    /\ idx < Len(resp.elems)
    /\ resp.token = [present |-> TRUE, text |-> "abc"]

FailedResponse(r) ==
    /\ r # NoResp
    /\ \/ r.exc \in {"ConnectionError", "Timeout"}
       \/ r.status # 200
       \/ ~r.wellformed

WordsOf(q) ==
    { SubSeq(q, i, j) : <<i, j>> \in
        { ij \in (1..Len(q)) \X (1..Len(q)) :
            /\ ij[1] <= ij[2]
            /\ \A k \in ij[1]..ij[2] : q[k] \notin Whitespace
            /\ ij[1] = 1 \/ q[ij[1] - 1] \in Whitespace
            /\ ij[2] = Len(q) \/ q[ij[2] + 1] \in Whitespace } }

\* C5: text_match(T, Q) holds exactly when T is not empty and the lowercased
\* T contains every lowercased word of Q as a substring.
C5_TextMatch ==
    (pc = "ret" /\ fn = "text_match") =>
        out = (/\ arg.text # << >>
               /\ \A w \in WordsOf(arg.query) : Contains(lower(arg.text), lower(w)))

C5_Witness ==
    /\ pc = "ret"
    /\ fn = "text_match"
    /\ out = TRUE
    /\ arg.text = <<"b", "A">>
    /\ arg.query = <<"A", " ", "b">>

DecimalValue(y) ==
    1000 * DigitValue[y[1]] + 100 * DigitValue[y[2]] + 10 * DigitValue[y[3]]
        + DigitValue[y[4]]

\* C6: a record without a year passes the year test; a record with year Y
\* passes exactly when fromYear <= Y <= toYear, Y taken as an integer.
C6_YearTest ==
    (pc = "ret" /\ fn = "year_ok") =>
        IF arg.year = << >>
        THEN out = TRUE
        ELSE out = (arg.lo <= DecimalValue(arg.year) /\ DecimalValue(arg.year) <= arg.hi)

C6_Witness ==
    /\ pc = "ret"
    /\ fn = "year_ok"
    /\ arg.year = <<"2", "0", "0", "0">>
    /\ arg.lo = 2000
    /\ arg.hi = 2010
    /\ out = TRUE

\* a continuation request: the verb and the token, nothing else
TokenParams(text) == [verb |-> "ListRecords", resumptionToken |-> text]

\* C7: the first request carries verb and metadataPrefix; a further request
\* is prepared only after a fully processed page that left the budget open
\* and carried a token with text, and carries that token only; a page
\* without such a token ends the harvest with what was collected.
C7_TokenDriven ==
    /\ [](/\ (pc = "get" /\ nreq = 0) =>
                params = [verb |-> "ListRecords", metadataPrefix |-> "oai_dc"]
          /\ (pc = "get" /\ nreq > 0) =>
                /\ ~FailedResponse(resp)
                /\ idx > Len(resp.elems)
                /\ Len(records) < max_results
                /\ resp.token.present
                /\ resp.token.text # ""
                /\ params = TokenParams(resp.token.text)
          /\ nreq = 1 => sent = [verb |-> "ListRecords", metadataPrefix |-> "oai_dc"]
          /\ nreq > 1 =>
                /\ DOMAIN sent = {"verb", "resumptionToken"}
                /\ sent.verb = "ListRecords"
                /\ sent.resumptionToken # ""
          /\ (pc = "returned" /\ Len(records) < max_results) =>
                /\ ~resp.token.present \/ resp.token.text = ""
                /\ idx > Len(resp.elems)
                /\ raw_records = records)
    /\ [][/\ (pc = "get" /\ pc' # "get") => sent' = params
          /\ pc # "get" => (NewRun \/ (sent' = sent /\ nreq' = nreq /\ resp' = resp))]_vars

C7_Witness ==
    /\ pc = "returned"
    /\ nreq = 2
    /\ sent = TokenParams("xyz")
    /\ ~resp.token.present
    /\ Len(records) = 1
    /\ max_results = 2

HasBoth(e) == e.meta /\ e.dc

RawRecordsOf(elems) ==
    LET usable == SelectSeq(elems, HasBoth)
    IN  [i \in 1..Len(usable) |-> extract(usable[i].children)]

\* C8: the collected records are, in processing order, one record for each
\* processed element that has both oai:metadata and dc:dc, and nothing else.
C8_HarvestOrder ==
    /\ ~truncated => records = RawRecordsOf(seen)
    /\ returned => raw_records = records

C8_Witness ==
    /\ pc = "returned"
    /\ ~truncated
    /\ nreq = 2
    /\ Len(seen) = 3
    /\ seen[2].meta /\ ~seen[2].dc
    /\ Len(raw_records) = 2
    /\ raw_records[1] # raw_records[2]

LastWith(ids, prefix) ==
    LET matching == { k \in 1..Len(ids) : startswith(ids[k], prefix) }
    IN  IF matching = {} THEN << >>
        ELSE ids[CHOOSE k \in matching : \A j \in matching : j <= k]

\* C9: pmcid is the last identifier starting with "PMC", doi the last one
\* starting with "10.", each absent exactly when no identifier has the prefix.
C9_LastIdentifierWins ==
    (pc = "ret" /\ fn = "select_ids") =>
        /\ out.pmcid = LastWith(arg, PMCPrefix)
        /\ out.doi = LastWith(arg, DOIPrefix)
        /\ out.pmcid = << >> <=> ~\E k \in 1..Len(arg) : startswith(arg[k], PMCPrefix)
        /\ out.doi = << >> <=> ~\E k \in 1..Len(arg) : startswith(arg[k], DOIPrefix)

C9_Witness ==
    /\ pc = "ret"
    /\ fn = "select_ids"
    /\ arg = <<PMC1, DOI1, PMC2>>
    /\ out = [pmcid |-> PMC2, doi |-> DOI1]

FirstWindow(d) ==
    LET starts == { i \in 1..(Len(d) - 3) : \A k \in i..(i + 3) : d[k] \in Digits }
    IN  IF starts = {} THEN << >>
        ELSE LET i == CHOOSE m \in starts : \A n \in starts : m <= n
             IN  SubSeq(d, i, i + 3)

\* C10: year is empty or four digits: the first four consecutive digits of
\* the first non-empty date text, empty when there is no such text or no
\* such digits in it; later date texts are not consulted.
C10_YearOfFirstDate ==
    (pc = "ret" /\ fn = "year_of") =>
        LET nonempty == { k \in 1..Len(arg) : arg[k] # << >> }
        IN  /\ out = << >> \/ (Len(out) = 4 /\ \A k \in 1..4 : out[k] \in Digits)
            /\ nonempty = {} => out = << >>
            /\ nonempty # {} =>
                  out = FirstWindow(arg[CHOOSE k \in nonempty : \A j \in nonempty : k <= j])

C10_Witness ==
    /\ pc = "ret"
    /\ fn = "year_of"
    /\ arg = << <<"x", "1", "2", "1", "2">>, <<"2", "2", "2", "2">> >>
    /\ out = <<"1", "2", "1", "2">>

=============================================================================
